---- MODULE Spec2Model ----
(***************************************************************************)
(* Item service: use case layer (Create, BulkCreate, Get, Update, Delete)   *)
(* over the item repository and a PostgreSQL table "items", seen through    *)
(* the HTTP routes of the item group.                                       *)
(*                                                                          *)
(* Storage is modelled at statement granularity under READ COMMITTED:       *)
(* every statement of a use case is one step, a transaction's inserts stay  *)
(* in its own pending list until commit, rollback drops them.               *)
(***************************************************************************)
EXTENDS Integers, Sequences, FiniteSets, TLC

\* ------------------------------------------------------------------ bounds
NumWorkers == 2      \* request-handling goroutines
MaxCalls   == 2      \* calls of the use cases started
MaxGets    == 2      \* GET /items/:id requests served
MaxBatch   == 2      \* longest bulk request that is enumerated
MaxFaults  == 1      \* storage statements that fail for an outside reason
MaxId      == 2      \* largest id a request addresses

Workers == 1..NumWorkers

\* ------------------------------------------------- program constants
MaxNameLength == 100       \* len(name) > 100 is rejected
MaxAmount     == 999999    \* amount > 999999 is rejected
MaxBulkItems  == 1000      \* index >= 1000 in a bulk request is rejected
MAX_BATCH_SIZE == 1000     \* names per duplicate query

\* ------------------------------------------------------------ error values
NoErr                 == "nil"
ErrItemNameRequired   == "item name is required"
ErrItemNameTooLong    == "item name cannot exceed 100 characters"
ErrItemAmountTooLarge == "item amount cannot exceed 999999"
ErrItemNotFound       == "item not found"
ErrItemAlreadyExists  == "item already exists"
ErrInvalidPagination  == "invalid pagination parameters"
ErrLimitTooLarge      == "limit too large"
ErrInvalidInput       == "invalid input"
ErrNoUpdates          == "no updates provided"

\* net/http status codes
StatusOK                  == 200
StatusCreated             == 201
StatusBadRequest          == 400
StatusNotFound            == 404
StatusConflict            == 409
StatusInternalServerError == 500

\* raw storage errors, as the driver reports them
ErrRecordNotFound == "gorm: record not found"
PgUniqueViolation == "pg 23505 duplicate key value violates unique constraint idx_items_name"
PgDeadlock        == "pg 40P01 deadlock detected"
PgTxAborted       == "pg 25P02 current transaction is aborted"
PgQueryCanceled   == "pg 57014 canceling statement due to statement timeout"

\* ------------------------------------------------------------------ names
\* A name is a sequence of characters; " " is the only whitespace used.
Space == " "

\* a character that takes two bytes in the UTF-8 encoding of a Go string
TwoByteChar == "U+00E9"

\* len(s) of a Go string: the number of its bytes
ByteLen(s) == Len(s) + Cardinality({ i \in 1..Len(s) : s[i] = TwoByteChar })

RECURSIVE TrimLeft(_)
TrimLeft(s) == IF s = <<>> THEN <<>>
               ELSE IF Head(s) = Space THEN TrimLeft(Tail(s)) ELSE s

RECURSIVE TrimRight(_)
TrimRight(s) == IF s = <<>> THEN <<>>
                ELSE IF s[Len(s)] = Space THEN TrimRight(SubSeq(s, 1, Len(s) - 1)) ELSE s

\* strings.TrimSpace
TrimSpace(s) == TrimRight(TrimLeft(s))

\* the request inputs that are enumerated
NameA    == <<"a">>
NamePadA == <<" ", "a">>
NameB    == <<"b">>
NameNone == <<>>

Candidates == { [name |-> NameA,    amount |-> 1],
                [name |-> NamePadA, amount |-> 2],
                [name |-> NameB,    amount |-> 1],
                [name |-> NameNone, amount |-> 1],
                [name |-> NameA,    amount |-> MaxAmount + 1] }

\* update requests: a nil pointer is has* = FALSE
UpdateReq(hasName, name, hasAmount, amount) ==
    [hasName |-> hasName, name |-> name, hasAmount |-> hasAmount, amount |-> amount]

UpdateReqs == { UpdateReq(TRUE, NamePadA, FALSE, 0),
                UpdateReq(TRUE, NameB, FALSE, 0),
                UpdateReq(FALSE, <<>>, TRUE, 2),
                UpdateReq(FALSE, <<>>, FALSE, 0) }

Ids == 1..MaxId

\* the empty identifier ""
EmptyId == 0

\* the identifiers a use case is called with
CallIds == Ids \cup {EmptyId}

Batches == UNION { [1..n -> Candidates] : n \in 0..MaxBatch }

\* ------------------------------------------------------------- validation
\* dto.CreateItemRequest.Validate
CreateItemRequestValidate(r) ==
    IF TrimSpace(r.name) = <<>> THEN ErrItemNameRequired
    ELSE IF ByteLen(r.name) > MaxNameLength THEN ErrItemNameTooLong
    ELSE IF r.amount > MaxAmount THEN ErrItemAmountTooLarge
    ELSE NoErr

\* the conversion without the trimming of the name
ToEntityUntrimmed(r) == [name |-> r.name, amount |-> r.amount]

\* dto.CreateItemRequest.ToEntity
ToEntity(r) == [name |-> TrimSpace(r.name), amount |-> r.amount]

\* validation.ItemValidator.ValidateItem
ValidateItem(e) ==
    IF TrimSpace(e.name) = <<>> THEN ErrItemNameRequired
    ELSE IF ByteLen(e.name) > MaxNameLength THEN ErrItemNameTooLong
    ELSE IF e.amount > MaxAmount THEN ErrItemAmountTooLarge
    ELSE NoErr

\* dto.UpdateItemRequest.Validate
UpdateItemRequestValidate(u) ==
    IF u.hasName /\ TrimSpace(u.name) = <<>> THEN ErrItemNameRequired
    ELSE IF u.hasName /\ ByteLen(u.name) > MaxNameLength THEN ErrItemNameTooLong
    ELSE IF u.hasAmount /\ u.amount > MaxAmount THEN ErrItemAmountTooLarge
    ELSE NoErr

\* dto.UpdateItemRequest.HasUpdates
HasUpdates(u) == u.hasName \/ u.hasAmount

\* the partial update without the trimming of the name
UpdateFromUntrimmed(row, u) ==
    [row EXCEPT !.name   = IF u.hasName THEN u.name ELSE @,
                !.amount = IF u.hasAmount THEN u.amount ELSE @]

\* entities.Item.UpdateFrom
UpdateFrom(row, u) ==
    [row EXCEPT !.name   = IF u.hasName THEN TrimSpace(u.name) ELSE @,
                !.amount = IF u.hasAmount THEN u.amount ELSE @]

\* errors.ErrorMapper.MapDomainError: the status code of an error
MapDomainError(err) ==
    IF err = ErrItemNotFound THEN StatusNotFound
    ELSE IF err \in {ErrItemNameRequired, ErrItemNameTooLong, ErrItemAmountTooLarge,
                     ErrInvalidPagination, ErrLimitTooLarge} THEN StatusBadRequest
    ELSE IF err = ErrItemAlreadyExists THEN StatusConflict
    ELSE StatusInternalServerError

\* dto.BulkCreateRequest.Validate: the loop from index i (0-based) on. It
\* returns at the first index whose candidate is invalid or that is >= 1000,
\* the candidate's error having precedence at that index.
BulkValidateFrom(b, i) ==
    LET stops == { j \in i..(Len(b) - 1) :
                     CreateItemRequestValidate(b[j + 1]) # NoErr \/ j >= MaxBulkItems }
        first == CHOOSE j \in stops : \A k \in stops : j <= k
    IN IF stops = {} THEN NoErr
       ELSE IF CreateItemRequestValidate(b[first + 1]) # NoErr
            THEN CreateItemRequestValidate(b[first + 1])
       ELSE ErrInvalidInput

\* the request validation without the validation of the candidates
BulkCreateRequestValidateSizeOnly(b) ==
    IF Len(b) = 0 THEN ErrItemNameRequired
    ELSE IF Len(b) > MaxBulkItems THEN ErrInvalidInput
    ELSE NoErr

\* the size cap one too early: a request of exactly 1000 is rejected
BulkCreateRequestValidateOffByOne(b) ==
    IF Len(b) = 0 THEN ErrItemNameRequired
    ELSE IF Len(b) >= MaxBulkItems THEN ErrInvalidInput
    ELSE BulkValidateFrom(b, 0)

\* dto.BulkCreateRequest.Validate
BulkCreateRequestValidate(b) ==
    IF Len(b) = 0 THEN ErrItemNameRequired ELSE BulkValidateFrom(b, 0)

\* dto.BulkCreateRequest.ToEntities
ToEntities(b) == [i \in 1..Len(b) |-> ToEntity(b[i])]

\* the namesSeen loop left out
NoInternalDuplicate(ents) == FALSE

\* the namesSeen loop of BulkCreate: a name of the request occurs twice
HasInternalDuplicate(ents) ==
    \E i, j \in 1..Len(ents) : i < j /\ ents[i].name = ents[j].name

\* the pre-validation loop of BulkCreate from index i (1-based) on: the
\* error of the first invalid entity, if any
ValidateAllFrom(ents, i) ==
    LET bad   == { j \in i..Len(ents) : ValidateItem(ents[j]) # NoErr }
        first == CHOOSE j \in bad : \A k \in bad : j <= k
    IN IF bad = {} THEN NoErr ELSE ValidateItem(ents[first])

Min(a, b) == IF a < b THEN a ELSE b

\* the SQLSTATE of a raw storage error (pgconn.PgError.Code)
PgCode(err) ==
    CASE err = PgUniqueViolation -> "23505"
      [] err = PgDeadlock        -> "40P01"
      [] err = PgTxAborted       -> "25P02"
      [] err = PgQueryCanceled   -> "57014"
      [] OTHER                   -> ""

PostgreSQLUniqueViolation == "23505"

\* ErrorHandler.IsUniqueConstraintViolation
IsUniqueConstraintViolation(err) == PgCode(err) = PostgreSQLUniqueViolation

\* the mapping left out: every storage error is handed on as it is
MapDatabaseErrorUnmapped(err) == err

\* ErrorHandler.MapDatabaseError
MapDatabaseError(err) ==
    IF err = NoErr THEN NoErr
    ELSE IF err = ErrRecordNotFound THEN ErrItemNotFound
    ELSE IF IsUniqueConstraintViolation(err) THEN ErrItemAlreadyExists
    ELSE err

\* ------------------------------------------------------------------ state
VARIABLES
    nameIndex,  \* whether table items carries the unique index idx_items_name
    items,      \* committed rows of table items
    nextId,     \* source of fresh ids (uuid.New in BeforeCreate)
    pc,         \* per worker: position inside the use case it executes
    call,       \* per worker: the request being executed
    tx,         \* per worker: the open transaction (uncommitted inserts)
    res,        \* per worker: what its last call returned
    cache,      \* responses held by the cache middleware of GET /items/:id
    got,        \* the last response of GET /items/:id
    deleted200, \* ids for which DELETE /items/:id has answered 200
    ncalls,     \* calls of the use cases started so far
    nwrites,    \* of these, the calls other than Get and Delete
    listCache,  \* responses held by the cache middleware of GET /items/
    lgot,       \* the last response of GET /items/
    ngets,      \* GET requests served so far
    nfaults     \* storage statements failed so far

vars == <<nameIndex, items, nextId, pc, call, tx, res, cache, got, deleted200,
          listCache, lgot, ncalls, nwrites, ngets, nfaults>>

\* entities.Item with the soft-delete BaseEntity: DeletedAt set = not live
Row(id, name, amount, deleted) ==
    [id |-> id, name |-> name, amount |-> amount, deleted |-> deleted]

NoTx   == [pending |-> <<>>, aborted |-> FALSE]
NoCall == [op |-> "none", batch |-> <<>>, ents |-> <<>>, k |-> 0, id |-> 0,
           ids |-> <<>>, fresh |-> FALSE, reuse |-> FALSE, stmts |-> 0,
           dropped |-> NoErr, failed |-> NoErr, upd |-> <<>>, cur |-> <<>>,
           solo |-> FALSE, seq |-> 0, found |-> FALSE, list |-> <<>>,
           http |-> FALSE, old |-> <<>>]
\* batch: the request's candidates; ents: the entities made of them; k: loop
\* index; id: the id addressed; ids: ids given to this call's inserts;
\* fresh: no live item had one of the request's names when the call began;
\* reuse: a deleted item had one of them then; stmts: statements issued;
\* dropped: a storage error the call did not return; failed: the raw storage
\* error that ended the call; upd: the update request; cur: the fetched item;
\* solo: no other call was running when this one began; seq: the number of
\* calls begun up to and including this one; found: the id addressed was that
\* of a live item when the call read it; list: the pagination request and
\* what has been computed for it; http: the call serves GET /items/;
\* old: the item as Update fetched it
NoRes  == [op |-> "none", err |-> NoErr, rows |-> <<>>, ids |-> <<>>, id |-> 0,
           batch |-> <<>>, fresh |-> FALSE, reuse |-> FALSE, stmts |-> 0,
           dropped |-> NoErr, failed |-> NoErr, upd |-> <<>>, solo |-> FALSE,
           found |-> FALSE, list |-> <<>>, old |-> <<>>]
\* solo: no other call ran at any time between the begin and the return

SeqToSet(s) == { s[i] : i \in 1..Len(s) }

\* rows a statement of worker w's transaction sees: the committed rows and
\* the transaction's own inserts
Visible(w) == items \cup SeqToSet(tx[w].pending)

\* gorm's soft-delete scope: deleted_at IS NULL
Live(rows) == { r \in rows : ~r.deleted }

\* uncommitted inserts of the other transactions
PendingOfOthers(w) == UNION { SeqToSet(tx[v].pending) : v \in Workers \ {w} }

\* a read that finds no row
GetByNameForUpdateNone(w, name) == {}

\* itemRepository.GetByNameForUpdate: WHERE name = ? (live rows only)
GetByNameForUpdate(w, name) == { r \in Live(Visible(w)) : r.name = name }

\* itemRepository.GetByNamesWithTx: WHERE name IN ? (live rows only)
GetByNamesWithTx(w, names) ==
    IF names = {} THEN {} ELSE { r \in Live(Visible(w)) : r.name \in names }

\* INSERT of a name by worker w waits while another transaction holds an
\* uncommitted row of that name in the unique index
InsertWaits(w, name) ==
    nameIndex /\ ~tx[w].aborted /\ \E r \in PendingOfOthers(w) : r.name = name

\* tx.Create(item).Error for an INSERT that is not waiting: the unique index
\* covers every row of the table, soft-deleted ones included
InsertError(w, name) ==
    IF tx[w].aborted THEN PgTxAborted
    ELSE IF nameIndex /\ \E r \in Visible(w) : r.name = name THEN PgUniqueViolation
    ELSE NoErr

\* the use case returns: the transaction (if any) is over, the worker is free
Return(w, r) ==
    /\ pc'   = [pc EXCEPT ![w] = "idle"]
    /\ res'  = [res EXCEPT ![w] = r]
    /\ tx'   = [tx EXCEPT ![w] = NoTx]
    /\ call' = [call EXCEPT ![w] = NoCall]

Result(c, err, rows) ==
    [NoRes EXCEPT !.op = c.op, !.err = err, !.rows = rows, !.ids = c.ids,
                  !.id = c.id, !.batch = c.batch, !.fresh = c.fresh,
                  !.reuse = c.reuse, !.stmts = c.stmts,
                  !.dropped = c.dropped, !.failed = c.failed, !.upd = c.upd,
                  !.solo = (c.solo /\ ncalls = c.seq), !.found = c.found,
                  !.list = c.list, !.old = c.old]

\* names of a request's candidates as they will be stored
StoredNames(batch) == { TrimSpace(batch[i].name) : i \in 1..Len(batch) }

\* no live committed item carries one of the request's names
Fresh(batch) == \A r \in Live(items) : r.name \notin StoredNames(batch)

\* a deleted item carries one of the request's names
Reuse(batch) == \E r \in items : r.deleted /\ r.name \in StoredNames(batch)

\* a transaction that keeps its inserts whatever its function returned
TxEndKeepsInserts(w, err) == items \cup SeqToSet(tx[w].pending)

\* the table after the transaction of worker w ended: gorm's Transaction
\* commits when its function returned nil and rolls back otherwise
TxEnd(w, err) == IF err = NoErr THEN items \cup SeqToSet(tx[w].pending) ELSE items

\* a use case returns from inside its transaction
TxReturn(w, c, err, rows) ==
    /\ items' = TxEnd(w, err)
    /\ Return(w, Result(c, err, rows))

NoGet == [id |-> 0, status |-> 0, after |-> FALSE]
NoList == [status |-> 0, reqPage |-> 0, reqLimit |-> 0, hit |-> FALSE,
           page |-> <<>>, limit |-> 0, total |-> 0, totalPages |-> 0, n |-> 0]

\* the table as earlier requests left it: empty, one live item, or one item
\* that was created and deleted
InitialTables == { {}, {Row(1, NameA, 1, FALSE)}, {Row(1, NameA, 1, TRUE)} }

Init ==
    /\ nameIndex \in BOOLEAN
    /\ items \in InitialTables
    /\ nextId = Cardinality(items) + 1
    /\ pc = [w \in Workers |-> "idle"]
    /\ call = [w \in Workers |-> NoCall]
    /\ tx = [w \in Workers |-> NoTx]
    /\ res = [w \in Workers |-> NoRes]
    /\ cache = {}
    /\ got = NoGet
    /\ deleted200 = {}
    /\ listCache = {}
    /\ lgot = NoList
    /\ ncalls = 0
    /\ nwrites = 0
    /\ ngets = 0
    /\ nfaults = 0

\* what a step of a worker leaves alone besides the variables it names
listVars  == <<listCache, lgot>>
httpVars  == <<cache, got, deleted200, ngets, listVars>>
countVars == <<ncalls, nwrites, nfaults>>

\* no other worker is inside a call
Solo(w) == \A v \in Workers \ {w} : pc[v] = "idle"

\* a call of a use case starts; Get and Delete are not counted in nwrites
Started(isGetOrDelete) ==
    /\ ncalls < MaxCalls
    /\ ncalls' = ncalls + 1
    /\ nwrites' = IF isGetOrDelete THEN nwrites ELSE nwrites + 1

\* a storage statement fails for an outside reason
Fault ==
    /\ nfaults < MaxFaults
    /\ nfaults' = nfaults + 1

\* ----------------------------------------------------------------- Create
\* itemUseCase.Create up to the start of the transaction
CreateCall(w, c) ==
    /\ pc[w] = "idle"
    /\ Started(FALSE)
    /\ LET ent  == ToEntity(c)
           verr == IF CreateItemRequestValidate(c) # NoErr
                   THEN CreateItemRequestValidate(c) ELSE ValidateItem(ent)
           this == [NoCall EXCEPT !.op = "create", !.batch = <<c>>, !.ents = <<ent>>,
                                  !.fresh = Fresh(<<c>>), !.reuse = Reuse(<<c>>),
                                  !.solo = Solo(w), !.seq = ncalls + 1]
       IN IF verr # NoErr
          THEN Return(w, Result(this, verr, <<>>))
          ELSE /\ pc'   = [pc EXCEPT ![w] = "create_check"]
               /\ call' = [call EXCEPT ![w] = this]
               /\ tx'   = [tx EXCEPT ![w] = NoTx]
               /\ UNCHANGED res
    /\ UNCHANGED <<nameIndex, items, nextId, httpVars, nfaults>>

\* the check function of Create: GetByNameForUpdate inside the transaction
CreateCheck(w) ==
    /\ pc[w] = "create_check"
    /\ LET c == [call[w] EXCEPT !.stmts = @ + 1]
       IN IF GetByNameForUpdate(w, c.ents[1].name) # {}
          THEN TxReturn(w, c, ErrItemAlreadyExists, <<>>)
          ELSE /\ pc' = [pc EXCEPT ![w] = "create_insert"]
               /\ call' = [call EXCEPT ![w] = c]
               /\ UNCHANGED <<items, tx, res>>
    /\ UNCHANGED <<nameIndex, nextId, httpVars, countVars>>

\* the same read failing for an outside reason: the check function returns
\* an error only when err == nil && existingItem != nil, so it returns nil and
\* the create function runs. PostgreSQL has aborted the transaction with the
\* failed statement.
CreateCheckFails(w) ==
    /\ pc[w] = "create_check"
    /\ Fault
    /\ tx' = [tx EXCEPT ![w].aborted = TRUE]
    /\ pc' = [pc EXCEPT ![w] = "create_insert"]
    /\ call' = [call EXCEPT ![w].dropped = PgQueryCanceled, ![w].stmts = @ + 1]
    /\ UNCHANGED <<nameIndex, items, nextId, res, httpVars, ncalls, nwrites>>

\* the create function of Create: CreateWithTx inside the transaction
CreateInsert(w) ==
    /\ pc[w] = "create_insert"
    /\ LET c   == [call[w] EXCEPT !.stmts = @ + 1]
           ent == c.ents[1]
           raw == InsertError(w, ent.name)
           row == Row(nextId, ent.name, ent.amount, FALSE)
       IN /\ ~InsertWaits(w, ent.name)
          /\ IF raw # NoErr
             THEN /\ TxReturn(w, [c EXCEPT !.failed = raw], MapDatabaseError(raw), <<>>)
                  /\ UNCHANGED nextId
             ELSE /\ tx'   = [tx EXCEPT ![w].pending = Append(@, row)]
                  /\ call' = [call EXCEPT ![w] = [c EXCEPT !.ids = Append(@, nextId)]]
                  /\ pc'   = [pc EXCEPT ![w] = "create_commit"]
                  /\ nextId' = nextId + 1
                  /\ UNCHANGED <<items, res>>
    /\ UNCHANGED <<nameIndex, httpVars, countVars>>

\* the INSERT failing for an outside reason
CreateInsertFails(w) ==
    /\ pc[w] = "create_insert"
    /\ Fault
    /\ TxReturn(w, [call[w] EXCEPT !.failed = PgQueryCanceled, !.stmts = @ + 1],
                MapDatabaseError(PgQueryCanceled), <<>>)
    /\ UNCHANGED <<nameIndex, nextId, httpVars, ncalls, nwrites>>

\* the function given to db.Transaction returned nil: COMMIT
Commit(w) ==
    /\ pc[w] \in {"create_commit", "bulk_commit"}
    /\ TxReturn(w, call[w], NoErr, tx[w].pending)
    /\ UNCHANGED <<nameIndex, nextId, httpVars, countVars>>

\* ------------------------------------------------------------- BulkCreate
\* itemUseCase.BulkCreate up to the first statement of its transaction
BulkCall(w, b) ==
    /\ pc[w] = "idle"
    /\ Started(FALSE)
    /\ LET ents == ToEntities(b)
           this == [NoCall EXCEPT !.op = "bulk", !.batch = b, !.ents = ents,
                                  !.fresh = Fresh(b), !.reuse = Reuse(b),
                                  !.solo = Solo(w), !.seq = ncalls + 1]
           err  == IF BulkCreateRequestValidate(b) # NoErr
                   THEN BulkCreateRequestValidate(b)
                   ELSE IF HasInternalDuplicate(ents) THEN ErrItemAlreadyExists
                   ELSE ValidateAllFrom(ents, 1)
       IN IF err # NoErr
          THEN Return(w, Result(this, err, <<>>))
          ELSE /\ pc'   = [pc EXCEPT ![w] = "bulk_check"]
               /\ call' = [call EXCEPT ![w] = this]
               /\ tx'   = [tx EXCEPT ![w] = NoTx]
               /\ UNCHANGED res
    /\ UNCHANGED <<nameIndex, items, nextId, httpVars, nfaults>>

\* names of the chunk items[i:end] of checkExternalDuplicatesInBatchesWithTx
ChunkNames(ents, i) ==
    { ents[j].name : j \in (i + 1)..Min(i + MAX_BATCH_SIZE, Len(ents)) }

\* one round of checkExternalDuplicatesInBatchesWithTx: the query of a chunk
BulkCheck(w) ==
    /\ pc[w] = "bulk_check"
    /\ LET c == [call[w] EXCEPT !.stmts = @ + 1]
       IN IF GetByNamesWithTx(w, ChunkNames(c.ents, c.k)) # {}
          THEN TxReturn(w, c, ErrItemAlreadyExists, <<>>)
          ELSE /\ IF c.k + MAX_BATCH_SIZE < Len(c.ents)
                  THEN /\ call' = [call EXCEPT ![w] = [c EXCEPT !.k = @ + MAX_BATCH_SIZE]]
                       /\ UNCHANGED pc
                  ELSE /\ call' = [call EXCEPT ![w] = [c EXCEPT !.k = 0]]
                       /\ pc' = [pc EXCEPT ![w] = "bulk_insert"]
               /\ UNCHANGED <<items, tx, res>>
    /\ UNCHANGED <<nameIndex, nextId, httpVars, countVars>>

\* the chunk query failing for an outside reason: returned as it is
BulkCheckFails(w) ==
    /\ pc[w] = "bulk_check"
    /\ Fault
    /\ TxReturn(w, [call[w] EXCEPT !.failed = PgQueryCanceled, !.stmts = @ + 1],
                PgQueryCanceled, <<>>)
    /\ UNCHANGED <<nameIndex, nextId, httpVars, ncalls, nwrites>>

\* one round of the insert loop of BulkCreate
BulkInsert(w) ==
    /\ pc[w] = "bulk_insert"
    /\ LET c   == [call[w] EXCEPT !.stmts = @ + 1]
           ent == c.ents[c.k + 1]
           raw == InsertError(w, ent.name)
           row == Row(nextId, ent.name, ent.amount, FALSE)
       IN /\ ~InsertWaits(w, ent.name)
          /\ IF raw # NoErr
             THEN /\ TxReturn(w, [c EXCEPT !.failed = raw], MapDatabaseError(raw), <<>>)
                  /\ UNCHANGED nextId
             ELSE /\ tx'   = [tx EXCEPT ![w].pending = Append(@, row)]
                  /\ call' = [call EXCEPT ![w] = [c EXCEPT !.ids = Append(@, nextId),
                                                           !.k = @ + 1]]
                  /\ pc'   = [pc EXCEPT ![w] =
                                IF c.k + 1 = Len(c.ents) THEN "bulk_commit"
                                                         ELSE "bulk_insert"]
                  /\ nextId' = nextId + 1
                  /\ UNCHANGED <<items, res>>
    /\ UNCHANGED <<nameIndex, httpVars, countVars>>

\* an INSERT of the loop failing for an outside reason
BulkInsertFails(w) ==
    /\ pc[w] = "bulk_insert"
    /\ Fault
    /\ TxReturn(w, [call[w] EXCEPT !.failed = PgQueryCanceled, !.stmts = @ + 1],
                MapDatabaseError(PgQueryCanceled), <<>>)
    /\ UNCHANGED <<nameIndex, nextId, httpVars, ncalls, nwrites>>

\* ------------------------------------------------------ deadlock detection
\* the name worker w is about to insert, when it is at an INSERT
InsertingName(w) ==
    IF pc[w] = "create_insert" THEN call[w].ents[1].name
    ELSE call[w].ents[call[w].k + 1].name

AtInsert(w) == pc[w] \in {"create_insert", "bulk_insert"}

\* w waits for v: w's INSERT is held back by an uncommitted row of v
WaitsFor(w, v) ==
    /\ w # v /\ nameIndex /\ AtInsert(w) /\ ~tx[w].aborted
    /\ \E r \in SeqToSet(tx[v].pending) : r.name = InsertingName(w)

RECURSIVE ReachableIn(_, _, _)
ReachableIn(w, v, n) ==
    \/ WaitsFor(w, v)
    \/ n > 1 /\ \E u \in Workers : WaitsFor(w, u) /\ ReachableIn(u, v, n - 1)

InWaitCycle(w) == \E v \in Workers : WaitsFor(w, v) /\ ReachableIn(v, w, NumWorkers)

\* PostgreSQL breaks a cycle of waiting INSERTs by failing one of them
DeadlockDetected(w) ==
    /\ AtInsert(w)
    /\ InWaitCycle(w)
    /\ TxReturn(w, [call[w] EXCEPT !.failed = PgDeadlock, !.stmts = @ + 1],
                MapDatabaseError(PgDeadlock), <<>>)
    /\ UNCHANGED <<nameIndex, nextId, httpVars, countVars>>

\* ------------------------------------------------------------------ reads
\* the same read without the soft-delete scope
RepoGetDeletedToo(id) == { r \in items : r.id = id }

\* itemRepository.Get: WHERE id = ? (live rows only), autocommit
RepoGet(id) == { r \in Live(items) : r.id = id }

\* itemRepository.GetByName: WHERE name = ? ORDER BY id LIMIT 1, autocommit
RepoGetByName(name) ==
    LET m == { r \in Live(items) : r.name = name }
    IN { r \in m : \A q \in m : r.id <= q.id }

\* itemUseCase.Get
UseCaseGet(id) ==
    IF id = EmptyId THEN ErrInvalidPagination
    ELSE IF RepoGet(id) = {} THEN ErrItemNotFound
    ELSE NoErr

\* a committed row with this id exists and is not soft-deleted
IsLiveId(id) == \E r \in items : r.id = id /\ ~r.deleted

\* itemUseCase.Get called by a worker
GetCall(w, id) ==
    /\ pc[w] = "idle"
    /\ Started(TRUE)
    /\ LET this == [NoCall EXCEPT !.op = "get", !.id = id,
                                  !.stmts = IF id = EmptyId THEN 0 ELSE 1,
                                  !.found = IsLiveId(id),
                                  !.solo = Solo(w), !.seq = ncalls + 1]
       IN Return(w, Result(this, UseCaseGet(id),
                           IF UseCaseGet(id) = NoErr
                           THEN <<CHOOSE r \in RepoGet(id) : TRUE>> ELSE <<>>))
    /\ UNCHANGED <<nameIndex, items, nextId, httpVars, nfaults>>

\* itemUseCase.Get when itemRepository.Get fails for an outside reason: every
\* error of the read is answered with ErrItemNotFound
GetCallFails(w, id) ==
    /\ pc[w] = "idle" /\ id # EmptyId
    /\ Started(TRUE)
    /\ Fault
    /\ LET this == [NoCall EXCEPT !.op = "get", !.id = id, !.stmts = 1,
                                  !.found = IsLiveId(id), !.failed = PgQueryCanceled,
                                  !.solo = Solo(w), !.seq = ncalls + 1]
       IN Return(w, Result(this, ErrItemNotFound, <<>>))
    /\ UNCHANGED <<nameIndex, items, nextId, httpVars>>

\* Handler.GetItem: the status code it answers with
GetItemStatus(id) ==
    IF UseCaseGet(id) # NoErr THEN MapDomainError(UseCaseGet(id)) ELSE StatusOK

\* the entry the cache middleware holds for the path of id, if any
Cached(id) == { e \in cache : e.id = id }

\* GET /items/:id through cache.New and Handler.GetItem
HttpGetItem(id) ==
    /\ ngets < MaxGets
    /\ ngets' = ngets + 1
    /\ IF Cached(id) # {}
       THEN /\ got' = [id |-> id, status |-> (CHOOSE e \in Cached(id) : TRUE).status,
                       after |-> id \in deleted200]
            /\ UNCHANGED cache
       ELSE /\ got' = [id |-> id, status |-> GetItemStatus(id),
                       after |-> id \in deleted200]
            /\ cache' = cache \cup {[id |-> id, status |-> GetItemStatus(id)]}
    /\ UNCHANGED <<nameIndex, items, nextId, pc, call, tx, res, deleted200,
                   listVars, countVars>>

\* the Expiration of a cache entry passes
CacheExpire(id) ==
    /\ Cached(id) # {}
    /\ cache' = cache \ Cached(id)
    /\ UNCHANGED <<nameIndex, items, nextId, pc, call, tx, res, got, deleted200,
                   ngets, listVars, countVars>>

\* ----------------------------------------------------------------- Delete
\* itemUseCase.Delete up to and including its existence check
DeleteCall(w, id) ==
    /\ pc[w] = "idle"
    /\ Started(TRUE)
    /\ LET this == [NoCall EXCEPT !.op = "delete", !.id = id,
                                  !.stmts = IF id = EmptyId THEN 0 ELSE 1,
                                  !.found = IsLiveId(id),
                                  !.solo = Solo(w), !.seq = ncalls + 1]
       IN IF id = EmptyId
          THEN Return(w, Result(this, ErrInvalidPagination, <<>>))
          ELSE IF RepoGet(id) = {}
          THEN Return(w, Result(this, ErrItemNotFound, <<>>))
          ELSE /\ pc'   = [pc EXCEPT ![w] = "delete_exec"]
               /\ call' = [call EXCEPT ![w] = this]
               /\ UNCHANGED <<tx, res>>
    /\ UNCHANGED <<nameIndex, items, nextId, httpVars, nfaults>>

\* the existence check of Delete failing for an outside reason: every error
\* of the read is answered with ErrItemNotFound
DeleteCallFails(w, id) ==
    /\ pc[w] = "idle" /\ id # EmptyId
    /\ Started(TRUE)
    /\ Fault
    /\ LET this == [NoCall EXCEPT !.op = "delete", !.id = id, !.stmts = 1,
                                  !.found = IsLiveId(id), !.failed = PgQueryCanceled,
                                  !.solo = Solo(w), !.seq = ncalls + 1]
       IN Return(w, Result(this, ErrItemNotFound, <<>>))
    /\ UNCHANGED <<nameIndex, items, nextId, httpVars>>

\* itemRepository.DeleteWithTx: UPDATE items SET deleted_at = now()
\* WHERE id = ? AND deleted_at IS NULL; no row affected is no error
SoftDelete(id) == { IF r.id = id THEN [r EXCEPT !.deleted = TRUE] ELSE r : r \in items }

\* the delete statement of itemUseCase.Delete and Handler.DeleteItem's answer
DeleteExec(w) ==
    /\ pc[w] = "delete_exec"
    /\ items' = SoftDelete(call[w].id)
    /\ deleted200' = deleted200 \cup {call[w].id}
    /\ Return(w, Result([call[w] EXCEPT !.stmts = @ + 1], NoErr, <<>>))
    /\ UNCHANGED <<nameIndex, nextId, cache, got, ngets, listVars, countVars>>

\* ----------------------------------------------------------------- Update
\* after UpdateFrom: the duplicate check is made only for a name that is set
NeedsNameCheck(u) == u.hasName /\ u.name # <<>>

\* itemUseCase.Update up to and including the fetch of the existing item
UpdateCall(w, id, u) ==
    /\ pc[w] = "idle"
    /\ Started(FALSE)
    /\ LET stored == TrimSpace(u.name)
           early  == IF id = EmptyId THEN ErrInvalidPagination
                     ELSE IF UpdateItemRequestValidate(u) # NoErr
                          THEN UpdateItemRequestValidate(u)
                     ELSE IF ~HasUpdates(u) THEN ErrNoUpdates
                     ELSE NoErr
           this == [NoCall EXCEPT
                       !.op = "update", !.id = id, !.upd = <<u>>,
                       !.fresh = ~\E r \in Live(items) : r.id # id /\ r.name = stored,
                       !.reuse = \E r \in items : r.deleted /\ r.name = stored,
                       !.found = IsLiveId(id),
                       !.stmts = IF early = NoErr THEN 1 ELSE 0,
                       !.solo = Solo(w), !.seq = ncalls + 1]
       IN IF early # NoErr
          THEN Return(w, Result(this, early, <<>>))
          ELSE IF RepoGet(id) = {}
          THEN Return(w, Result(this, ErrItemNotFound, <<>>))
          ELSE LET fetched  == CHOOSE r \in RepoGet(id) : TRUE
                   existing == UpdateFrom(fetched, u)
                   c == [this EXCEPT !.cur = <<existing>>, !.old = <<fetched>>]
               IN IF ~NeedsNameCheck(u) /\ ValidateItem(existing) # NoErr
                  THEN Return(w, Result(c, ValidateItem(existing), <<>>))
                  ELSE /\ pc'   = [pc EXCEPT ![w] =
                                     IF NeedsNameCheck(u) THEN "update_check"
                                                          ELSE "update_save"]
                       /\ call' = [call EXCEPT ![w] = c]
                       /\ UNCHANGED <<tx, res>>
    /\ UNCHANGED <<nameIndex, items, nextId, httpVars, nfaults>>

\* the fetch of Update failing for an outside reason: every error of the
\* read is answered with ErrItemNotFound
UpdateCallFails(w, id, u) ==
    /\ pc[w] = "idle" /\ id # EmptyId
    /\ UpdateItemRequestValidate(u) = NoErr /\ HasUpdates(u)
    /\ Started(FALSE)
    /\ Fault
    /\ LET stored == TrimSpace(u.name)
           this == [NoCall EXCEPT
                       !.op = "update", !.id = id, !.upd = <<u>>,
                       !.fresh = ~\E r \in Live(items) : r.id # id /\ r.name = stored,
                       !.reuse = \E r \in items : r.deleted /\ r.name = stored,
                       !.found = IsLiveId(id), !.stmts = 1,
                       !.failed = PgQueryCanceled,
                       !.solo = Solo(w), !.seq = ncalls + 1]
       IN Return(w, Result(this, ErrItemNotFound, <<>>))
    /\ UNCHANGED <<nameIndex, items, nextId, httpVars>>

\* the duplicate-name check of Update: GetByName(*req.Name), then ValidateItem
UpdateCheck(w) ==
    /\ pc[w] = "update_check"
    /\ LET c   == [call[w] EXCEPT !.stmts = @ + 1]
           dup == RepoGetByName(c.upd[1].name)
       IN IF \E d \in dup : d.id # c.cur[1].id
          THEN Return(w, Result(c, ErrItemAlreadyExists, <<>>))
          ELSE IF ValidateItem(c.cur[1]) # NoErr
          THEN Return(w, Result(c, ValidateItem(c.cur[1]), <<>>))
          ELSE /\ pc' = [pc EXCEPT ![w] = "update_save"]
               /\ call' = [call EXCEPT ![w] = c]
               /\ UNCHANGED <<tx, res>>
    /\ UNCHANGED <<nameIndex, items, nextId, httpVars, countVars>>

\* GetByName failing for an outside reason: the conflict is reported only
\* when err == nil && duplicateItem != nil, so the error is dropped and the
\* update goes on
UpdateCheckFails(w) ==
    /\ pc[w] = "update_check"
    /\ Fault
    /\ LET c == [call[w] EXCEPT !.stmts = @ + 1, !.dropped = PgQueryCanceled]
       IN IF ValidateItem(c.cur[1]) # NoErr
          THEN Return(w, Result(c, ValidateItem(c.cur[1]), <<>>))
          ELSE /\ pc' = [pc EXCEPT ![w] = "update_save"]
               /\ call' = [call EXCEPT ![w] = c]
               /\ UNCHANGED <<tx, res>>
    /\ UNCHANGED <<nameIndex, items, nextId, httpVars, ncalls, nwrites>>

\* tx.Save(item) waits while another transaction holds an uncommitted row of
\* the name the item is given
SaveWaits(w, row) ==
    /\ nameIndex
    /\ \E r \in PendingOfOthers(w) : r.name = row.name
    /\ \E r \in items : r.id = row.id /\ r.name # row.name

\* tx.Save(item).Error: the unique index rejects a name another row carries
SaveError(row) ==
    IF nameIndex /\ \E r \in items : r.id # row.id /\ r.name = row.name
    THEN PgUniqueViolation ELSE NoErr

\* tx.Save(item): UPDATE of all fields WHERE id = ? AND deleted_at IS NULL and,
\* when that affects no row, INSERT .. ON CONFLICT (id) DO UPDATE of all
\* fields, deleted_at included
SaveRows(row) == { r \in items : r.id # row.id } \cup {[row EXCEPT !.deleted = FALSE]}

\* itemRepository.Update from itemUseCase.Update
UpdateSave(w) ==
    /\ pc[w] = "update_save"
    /\ LET c == [call[w] EXCEPT !.stmts = @ + 1]
       IN /\ ~SaveWaits(w, c.cur[1])
          /\ IF SaveError(c.cur[1]) # NoErr
             THEN /\ Return(w, Result([c EXCEPT !.failed = SaveError(c.cur[1])],
                                      SaveError(c.cur[1]), <<>>))
                  /\ UNCHANGED items
             ELSE /\ items' = SaveRows(c.cur[1])
                  /\ Return(w, Result(c, NoErr, <<[c.cur[1] EXCEPT !.deleted = FALSE]>>))
    /\ UNCHANGED <<nameIndex, nextId, httpVars, countVars>>

\* the use case layer over storage
Next ==
    \/ \E w \in Workers, c \in Candidates : CreateCall(w, c)
    \/ \E w \in Workers : CreateCheck(w)
    \/ \E w \in Workers : CreateCheckFails(w)
    \/ \E w \in Workers : CreateInsert(w)
    \/ \E w \in Workers : CreateInsertFails(w)
    \/ \E w \in Workers : Commit(w)
    \/ \E w \in Workers, b \in Batches : BulkCall(w, b)
    \/ \E w \in Workers : BulkCheck(w)
    \/ \E w \in Workers : BulkCheckFails(w)
    \/ \E w \in Workers : BulkInsert(w)
    \/ \E w \in Workers : BulkInsertFails(w)
    \/ \E w \in Workers : DeadlockDetected(w)
    \/ \E w \in Workers, id \in CallIds : GetCall(w, id)
    \/ \E w \in Workers, id \in CallIds : GetCallFails(w, id)
    \/ \E w \in Workers, id \in CallIds : DeleteCall(w, id)
    \/ \E w \in Workers, id \in CallIds : DeleteCallFails(w, id)
    \/ \E w \in Workers : DeleteExec(w)
    \/ \E w \in Workers, id \in CallIds, u \in UpdateReqs : UpdateCall(w, id, u)
    \/ \E w \in Workers, id \in CallIds, u \in UpdateReqs : UpdateCallFails(w, id, u)
    \/ \E w \in Workers : UpdateCheck(w)
    \/ \E w \in Workers : UpdateCheckFails(w)
    \/ \E w \in Workers : UpdateSave(w)

Spec == Init /\ [][Next]_vars

\* ================================================================= properties
AllDone == \A w \in Workers : pc[w] = "idle"

\* the request passes dto validation and the business rules
ValidCreate(c) == CreateItemRequestValidate(c) = NoErr /\ ValidateItem(ToEntity(c)) = NoErr
ValidBulk(b) == BulkCreateRequestValidate(b) = NoErr /\ ValidateAllFrom(ToEntities(b), 1) = NoErr

\* the rows of the table that this call inserted
InsertedBy(r) == { q \in items : q.id \in SeqToSet(r.ids) }

\* ---- C1
\* every worker has made exactly one call, a Create of one and the same valid
\* name, each started while no item, live or deleted, carried that name, and
\* no statement failed for an outside reason
C1_Case ==
    /\ AllDone /\ ncalls = NumWorkers /\ nfaults = 0
    /\ \A w \in Workers : /\ res[w].op = "create" /\ res[w].fresh /\ ~res[w].reuse
                          /\ ValidCreate(res[w].batch[1])
                          /\ StoredNames(res[w].batch) = StoredNames(res[1].batch)

\* C1: of N >= 2 concurrent Creates of the same valid name, started when no
\* live item has that name, exactly one succeeds, the others fail with
\* AlreadyExists and with nothing else, and afterwards exactly one live item
\* has that name.
C1_ExactlyOneCreateSucceeds ==
    C1_Case =>
        /\ Cardinality({ w \in Workers : res[w].err = NoErr }) = 1
        /\ \A w \in Workers : res[w].err \in {NoErr, ErrItemAlreadyExists}
        /\ Cardinality({ r \in Live(items) : r.name \in StoredNames(res[1].batch) }) = 1

\* ---- C2
\* C2: in every reachable state no two live items have the same name.
C2_LiveNamesDistinct ==
    \A r, q \in Live(items) : r.name = q.name => r.id = q.id

\* ---- C3
\* C3: when BulkCreate returns an error, whatever the reason, none of the
\* rows it inserted is in the table, and while a BulkCreate runs no other
\* request's reads see a row it inserted.
C3_FailedBulkPersistsNothing ==
    \A w \in Workers :
        /\ (res[w].op = "bulk" /\ res[w].err # NoErr) => InsertedBy(res[w]) = {}
        /\ call[w].op = "bulk" =>
              \A v \in Workers \ {w} :
                  \A r \in Visible(v) : r.id \notin SeqToSet(call[w].ids)

\* a BulkCreate failed after it had inserted at least one row
C3_Witness ==
    \E w \in Workers :
        res[w].op = "bulk" /\ res[w].err # NoErr /\ Len(res[w].ids) >= 1

\* ---- C4
\* C4: when the insert of a Create or BulkCreate is rejected by the unique
\* index on name, the caller receives AlreadyExists, not the raw error.
C4_UniqueViolationIsAlreadyExists ==
    \A w \in Workers :
        (res[w].op \in {"create", "bulk"} /\ res[w].failed = PgUniqueViolation)
            => res[w].err = ErrItemAlreadyExists

\* an insert of a Create and an insert of a BulkCreate were rejected
C4_Witness ==
    /\ \E w \in Workers : res[w].op = "create" /\ res[w].failed = PgUniqueViolation
    /\ \E w \in Workers : res[w].op = "bulk" /\ res[w].failed = PgUniqueViolation

\* ---- C5
\* two BulkCreates, the only calls made, of valid batches that share a name,
\* each started while no item, live or deleted, carried one of its names
C5_Case ==
    /\ AllDone /\ ncalls = 2 /\ nfaults = 0
    /\ \E w, v \in Workers :
          /\ w # v
          /\ res[w].op = "bulk" /\ res[v].op = "bulk"
          /\ res[w].fresh /\ res[v].fresh /\ ~res[w].reuse /\ ~res[v].reuse
          /\ ValidBulk(res[w].batch) /\ ValidBulk(res[v].batch)
          /\ StoredNames(res[w].batch) \cap StoredNames(res[v].batch) # {}

\* C5: of two concurrent BulkCreates whose batches share a name at most one
\* commits; the one that does not commit fails with AlreadyExists, with no
\* other storage error, and persists nothing.
C5_AtMostOneBulkCommits ==
    C5_Case =>
        /\ Cardinality({ w \in Workers : res[w].op = "bulk" /\ res[w].err = NoErr }) <= 1
        /\ \A w \in Workers :
              (res[w].op = "bulk" /\ res[w].err # NoErr)
                  => res[w].err = ErrItemAlreadyExists /\ InsertedBy(res[w]) = {}

\* ---- C6
\* C6: when the locking read or the insert of Create fails with an error that
\* is neither "not found" nor a uniqueness violation, Create returns that
\* error unchanged and inserts nothing.
C6_CreatePropagatesStorageError ==
    \A w \in Workers :
        res[w].op = "create" =>
            /\ res[w].dropped = NoErr
            /\ res[w].failed = PgQueryCanceled =>
                  res[w].err = PgQueryCanceled /\ InsertedBy(res[w]) = {}

\* ---- C8
\* the only call other than a Delete is one Create of a valid name that a
\* deleted item carries and no live item carries
C8_Case(w) ==
    /\ pc[w] = "idle" /\ nwrites = 1 /\ nfaults = 0
    /\ res[w].op = "create" /\ res[w].reuse /\ res[w].fresh
    /\ ValidCreate(res[w].batch[1])

SameNameTwice(b) ==
    \E i, j \in 1..Len(b) :
        /\ i # j
        /\ TrimSpace(b[i].name) = TrimSpace(b[j].name)
        /\ TrimSpace(b[i].name) # <<>>

\* C9 as stated: a BulkCreate whose batch contains the same name twice fails
\* with AlreadyExists without any storage access and inserts nothing.
C9_AsStated ==
    \A w \in Workers :
        (res[w].op = "bulk" /\ SameNameTwice(res[w].batch))
            => /\ res[w].err = ErrItemAlreadyExists
               /\ res[w].stmts = 0
               /\ res[w].ids = <<>>

\* C9: a BulkCreate whose request passes request validation and whose batch
\* contains the same name twice (compared after trimming) fails with
\* AlreadyExists without any storage access and inserts nothing.
C9_DuplicateInValidBatch ==
    \A w \in Workers :
        (/\ res[w].op = "bulk"
         /\ BulkCreateRequestValidate(res[w].batch) = NoErr
         /\ SameNameTwice(res[w].batch))
            => /\ res[w].err = ErrItemAlreadyExists
               /\ res[w].stmts = 0
               /\ res[w].ids = <<>>

\* a valid batch whose two names are equal only after trimming was rejected
C9_Witness ==
    \E w \in Workers :
        /\ res[w].op = "bulk"
        /\ BulkCreateRequestValidate(res[w].batch) = NoErr
        /\ Len(res[w].batch) = 2
        /\ res[w].batch[1].name # res[w].batch[2].name
        /\ SameNameTwice(res[w].batch)
        /\ res[w].err = ErrItemAlreadyExists

\* ---- C10
\* what a successful BulkCreate of batch b returned as rows, in state items
BulkResultOk(b, rows, table) ==
    /\ Len(rows) = Len(b)
    /\ \A i \in 1..Len(b) :
          /\ rows[i].name = TrimSpace(b[i].name)
          /\ rows[i].amount = b[i].amount
          /\ rows[i] \in table
          /\ ~rows[i].deleted
          /\ \A j \in 1..Len(b) : rows[i].id = rows[j].id => i = j

\* C10: when BulkCreate succeeds on N candidates it returns N items in input
\* order, result i with candidate i's trimmed name and its amount, and at
\* its return all N are live rows of the table, each under its own id.
C10_BulkCreateReturnsAll ==
    [][\A w \in Workers :
          (pc[w] = "bulk_commit" /\ pc'[w] = "idle")
              => /\ res'[w].op = "bulk" /\ res'[w].err = NoErr
                 /\ BulkResultOk(res'[w].batch, res'[w].rows, items')]_vars

\* a BulkCreate of two candidates, one with a padded name, has succeeded
C10_Witness ==
    \E w \in Workers :
        /\ res[w].op = "bulk" /\ res[w].err = NoErr
        /\ Len(res[w].batch) = 2 /\ Len(res[w].rows) = 2
        /\ \E i \in 1..2 : res[w].batch[i].name # TrimSpace(res[w].batch[i].name)

\* ------------------------------------------------- bulk requests by size
\* decimal digits of n as characters
Digit == <<"0", "1", "2", "3", "4", "5", "6", "7", "8", "9">>

RECURSIVE NumberedName(_)
NumberedName(n) ==
    IF n < 10 THEN <<Digit[n + 1]>>
    ELSE Append(NumberedName(n \div 10), Digit[(n % 10) + 1])

\* a bulk request of n valid candidates with pairwise different names
SizedBatch(n) == [i \in 1..n |-> [name |-> NumberedName(i), amount |-> 1]]

\* the request sizes around the cap of BulkCreateRequest.Validate
BulkSizes == {0, 1, MaxBulkItems, MaxBulkItems + 1}

\* BulkCreate called with requests of these sizes, one call at a time
NextBulk ==
    \/ \E n \in BulkSizes : BulkCall(1, SizedBatch(n))
    \/ BulkCheck(1)
    \/ BulkInsert(1)
    \/ Commit(1)

SpecBulk == Init /\ [][NextBulk]_vars

\* ---- C11
\* C11: BulkCreate rejects an empty request and every request of more than
\* 1000 candidates with an error and without any storage access, and does
\* not reject a request of 1 to 1000 valid candidates, 1000 included, for
\* its size or as invalid.
C11_BulkSizeCap ==
    \A w \in Workers :
        res[w].op = "bulk" =>
            /\ (Len(res[w].batch) = 0 \/ Len(res[w].batch) > 1000)
                  => res[w].err # NoErr /\ res[w].stmts = 0 /\ res[w].ids = <<>>
            /\ (/\ Len(res[w].batch) \in 1..1000
                /\ \A i \in 1..Len(res[w].batch) :
                      CreateItemRequestValidate(res[w].batch[i]) = NoErr)
                  => res[w].err \notin {ErrInvalidInput, ErrItemNameRequired,
                                        ErrItemNameTooLong, ErrItemAmountTooLarge}

\* a request of exactly 1000 candidates passed validation and is inserting
C11_Witness ==
    /\ call[1].op = "bulk" /\ Len(call[1].batch) = 1000
    /\ Len(call[1].ids) >= 1

\* ---- C12
\* indexes of the candidates that dto validation rejects
InvalidCandidates(b) ==
    { i \in 1..Len(b) : CreateItemRequestValidate(b[i]) # NoErr }

\* C12 as stated: the duplicate check inside the batch comes before the
\* validation of the candidates, so a BulkCreate whose batch contains both a
\* repeated name and an invalid candidate fails with AlreadyExists.
C12_AsStated ==
    \A w \in Workers :
        (/\ res[w].op = "bulk"
         /\ SameNameTwice(res[w].batch)
         /\ InvalidCandidates(res[w].batch) # {})
            => res[w].err = ErrItemAlreadyExists

\* C12: BulkCreate applies its steps in the order: validation of every
\* candidate of the request, duplicate check inside the batch, duplicate
\* check against storage, inserts; the error returned is that of the
\* earliest failing step, so a batch that contains both a repeated name and
\* an invalid candidate fails with the validation error of the first invalid
\* candidate, and neither of the first two steps touches storage.
C12_StepOrder ==
    \A w \in Workers :
        (res[w].op = "bulk" /\ Len(res[w].batch) \in 1..1000) =>
            LET b   == res[w].batch
                bad == InvalidCandidates(b)
            IN IF bad # {}
               THEN /\ res[w].err = CreateItemRequestValidate(
                                       b[CHOOSE i \in bad : \A j \in bad : i <= j])
                    /\ res[w].stmts = 0
               ELSE IF SameNameTwice(b)
               THEN res[w].err = ErrItemAlreadyExists /\ res[w].stmts = 0
               ELSE /\ res[w].stmts >= 1
                    /\ res[w].stmts >= Len(res[w].ids) + 1
                    /\ res[w].err \notin {ErrItemNameRequired, ErrItemNameTooLong,
                                          ErrItemAmountTooLarge, ErrInvalidInput}

\* a batch with a repeated name and an invalid candidate was rejected with
\* the validation error
C12_Witness ==
    \E w \in Workers :
        /\ res[w].op = "bulk"
        /\ SameNameTwice(res[w].batch)
        /\ InvalidCandidates(res[w].batch) # {}
        /\ res[w].err = ErrItemAmountTooLarge

\* ---- C13
\* an Update that sets a valid name on a live item has returned; no other
\* call ran beside it, no statement failed for an outside reason, and no
\* deleted item carries the name
C13_Case(w) ==
    /\ pc[w] = "idle" /\ res[w].op = "update" /\ res[w].solo /\ nfaults = 0
    /\ res[w].upd[1].hasName /\ ~res[w].reuse
    /\ UpdateItemRequestValidate(res[w].upd[1]) = NoErr
    /\ res[w].found /\ res[w].err # ErrItemNotFound

\* C13: an Update that sets a name fails with AlreadyExists if and only if
\* a different live item already has the name as it will be stored (after
\* trimming); otherwise, the item itself having the name included, it
\* succeeds.
C13_UpdateConflictIff ==
    \A w \in Workers :
        C13_Case(w) =>
            /\ res[w].err = ErrItemAlreadyExists <=> ~res[w].fresh
            /\ res[w].fresh => res[w].err = NoErr

\* ---- C14
\* Handler.UpdateItem: the status code it answers with for what Update returned
UpdateItemStatus(r) ==
    IF r.err # NoErr THEN MapDomainError(r.err) ELSE StatusOK

\* C14: an Update with neither name nor amount fails with the 'no updates
\* provided' error, the caller gets a 400, and storage is not touched.
C14_NoUpdatesIsBadRequest ==
    \A w \in Workers :
        (res[w].op = "update" /\ res[w].id # EmptyId
                              /\ ~HasUpdates(res[w].upd[1]))
            => /\ res[w].err = ErrNoUpdates
               /\ UpdateItemStatus(res[w]) = StatusBadRequest
               /\ res[w].stmts = 0

\* ---- C15
\* C15 as stated: Get, Update and Delete on an identifier that does not
\* resolve to a live item fail with NotFound, and Update and Delete then
\* issue no statement after the read of the item.
C15_AsStated ==
    \A w \in Workers :
        (res[w].op \in {"get", "update", "delete"} /\ ~res[w].found)
            => res[w].err = ErrItemNotFound /\ res[w].stmts <= 1

\* the call reaches its read of the item: the identifier is not empty and,
\* for Update, the request is valid and sets a field
C15_ReachesRead(r) ==
    /\ r.id # EmptyId
    /\ r.op = "update" =>
          UpdateItemRequestValidate(r.upd[1]) = NoErr /\ HasUpdates(r.upd[1])

\* C15: Get and Delete on a non-empty identifier, and Update with a valid
\* request that sets a field on a non-empty identifier, fail with NotFound
\* when the identifier does not resolve to a live item, and Update and
\* Delete then issue no statement after the read of the item; with an empty
\* identifier, or an Update request that is invalid or sets no field, the
\* call fails with that error before it reads the item.
C15_NotFound ==
    \A w \in Workers :
        (res[w].op \in {"get", "update", "delete"} /\ ~res[w].found) =>
            IF C15_ReachesRead(res[w])
            THEN res[w].err = ErrItemNotFound /\ res[w].stmts = 1
                 /\ res[w].rows = <<>>
            ELSE res[w].err \notin {NoErr, ErrItemNotFound} /\ res[w].stmts = 0
                 /\ res[w].rows = <<>>

\* Get, Update and Delete have each been refused on the id of a deleted item
C15_Witness ==
    \E w, v \in Workers :
        /\ res[w].op \in {"update", "delete"} /\ res[v].op \in {"get", "delete"}
        /\ res[w].op # res[v].op
        /\ res[w].err = ErrItemNotFound /\ res[v].err = ErrItemNotFound
        /\ \E r \in items : r.id = res[w].id /\ r.deleted
        /\ \E r \in items : r.id = res[v].id /\ r.deleted

\* ---- C16
\* C16: a failure of storage other than "row not found" during the read of
\* Get, the existence check of Delete, the fetch of Update or the
\* name-collision check of Update is returned as a storage failure that is
\* answered with a 500, never as NotFound and never as success.
C16_ReadFailureIsSurfaced ==
    \A w \in Workers :
        (/\ res[w].op \in {"get", "delete", "update"}
         /\ PgQueryCanceled \in {res[w].failed, res[w].dropped})
            => /\ res[w].err \notin {NoErr, ErrItemNotFound}
               /\ MapDomainError(res[w].err) = StatusInternalServerError

\* ============================================================ create limits
\* names at the limits of the validation: 100 and 101 letters, 100 characters
\* of which one takes two bytes, 100 letters behind a space, blanks only
Letters(n) == [i \in 1..n |-> "a"]
LimitNames ==
    { Letters(MaxNameLength), Letters(MaxNameLength + 1),
      Letters(MaxNameLength - 1) \o <<TwoByteChar>>,
      <<Space>> \o Letters(MaxNameLength), NamePadA, NameNone, <<Space, Space>> }

LimitCandidates ==
    { [name |-> n, amount |-> a] : n \in LimitNames, a \in {MaxAmount, MaxAmount + 1} }

\* Create called with requests at the limits of the validation
NextCreate ==
    \/ \E w \in Workers, c \in LimitCandidates : CreateCall(w, c)
    \/ \E w \in Workers : CreateCheck(w)
    \/ \E w \in Workers : CreateInsert(w)
    \/ \E w \in Workers : Commit(w)

SpecCreate == Init /\ [][NextCreate]_vars

\* ---- C21
\* the name has between 1 and 100 characters and is not blank
NameInLimits(name) == TrimSpace(name) # <<>> /\ Len(name) <= MaxNameLength

\* C21: Create does not reject a name of exactly 100 characters or an amount
\* of exactly 999999; it rejects a name of 101 characters with name-too-long,
\* an empty or blank name with name-required and an amount of 1000000 with
\* amount-too-large, each time without a statement sent to storage.
C21_CreateLimits ==
    \A w \in Workers :
        res[w].op = "create" =>
            LET c == res[w].batch[1]
                verrs == {ErrItemNameRequired, ErrItemNameTooLong, ErrItemAmountTooLarge}
            IN /\ (NameInLimits(c.name) /\ c.amount <= MaxAmount)
                      => res[w].err \notin verrs
               /\ TrimSpace(c.name) = <<>>
                      => res[w].err = ErrItemNameRequired /\ res[w].stmts = 0
               /\ (TrimSpace(c.name) # <<>> /\ Len(c.name) = MaxNameLength + 1)
                      => res[w].err = ErrItemNameTooLong /\ res[w].stmts = 0
               /\ (NameInLimits(c.name) /\ c.amount = MaxAmount + 1)
                      => res[w].err = ErrItemAmountTooLarge /\ res[w].stmts = 0

\* ---- C22
\* C22: Create stores the name without its leading and trailing whitespace,
\* and the rule of 1 to 100 characters applies to the trimmed name: no padded
\* name whose trimmed form has 1 to 100 letters is rejected for its name.
C22_LimitAppliesToTrimmedName ==
    \A w \in Workers :
        (/\ res[w].op = "create"
         /\ Len(TrimSpace(res[w].batch[1].name)) \in 1..MaxNameLength
         /\ TwoByteChar \notin SeqToSet(res[w].batch[1].name)) =>
            /\ res[w].err \notin {ErrItemNameRequired, ErrItemNameTooLong}
            /\ \A i \in 1..Len(res[w].rows) :
                  res[w].rows[i].name = TrimSpace(res[w].batch[1].name)

\* ---- C23
\* an Update that sets only a name, padded with whitespace, whose trimmed form
\* is the name the item carries; no other call ran beside it and no statement
\* failed for an outside reason
C23_Case(r) ==
    /\ r.op = "update" /\ r.solo /\ nfaults = 0 /\ r.old # <<>>
    /\ r.upd[1].hasName /\ ~r.upd[1].hasAmount
    /\ r.upd[1].name # TrimSpace(r.upd[1].name)
    /\ r.old[1].name = TrimSpace(r.upd[1].name)

\* C23: the update of an item whose name was stored trimmed with the same
\* padded name succeeds and leaves the table, the stored name and amount of
\* the item included, as it was; so does every repetition of that update.
C23_SamePaddedNameChangesNothing ==
    [][\A w \in Workers :
          (pc[w] # "idle" /\ pc'[w] = "idle" /\ C23_Case(res'[w])) =>
              /\ res'[w].err = NoErr
              /\ res'[w].rows = res'[w].old
              /\ items' = items]_vars

\* an item was created from a padded name and then updated with that name
C23_Witness ==
    \E w, v \in Workers :
        /\ C23_Case(res[w]) /\ res[w].err = NoErr
        /\ res[v].op = "create" /\ res[v].err = NoErr
        /\ res[v].batch[1].name = res[w].upd[1].name
        /\ res[v].ids = <<res[w].id>>

\* ---- C24
\* the stored row of id, if any
Stored(rows, id) == { r \in rows : r.id = id }

\* C24: an Update changes only the fields its request provides: the write of
\* an Update that gives only a name leaves the stored amount of the item as
\* it is, one that gives only an amount leaves the stored name as it is, and
\* no Update changes the identifier of an item or any other item.
C24_UpdateChangesOnlyGivenFields ==
    [][\A w \in Workers :
          (pc[w] = "update_save" /\ pc'[w] = "idle") =>
              LET u == call[w].upd[1]
              IN /\ { r.id : r \in items' } = { r.id : r \in items }
                 /\ \A r \in items : r.id # call[w].id => r \in items'
                 /\ \A r \in Stored(items, call[w].id) :
                       \A q \in Stored(items', call[w].id) :
                           /\ ~u.hasName => q.name = r.name
                           /\ ~u.hasAmount => q.amount = r.amount]_vars

\* ---- C25
\* C25: within one Create the existence read comes before the insert and in
\* the same transaction; the insert is not executed when the read found a
\* live item of the name; and until the commit the new item is in no other
\* transaction's view of the table.
C25_ReadThenInsertThenCommit ==
    [][\A w \in Workers :
          call[w].op = "create" =>
              /\ pc'[w] = "create_insert" =>
                    pc[w] \in {"create_check", "create_insert"} /\ call'[w].stmts = 1
              /\ (pc[w] = "create_check" /\ pc'[w] = "create_insert"
                                        /\ call'[w].dropped = NoErr) =>
                    ~\E r \in Live(Visible(w)) : r.name = call[w].ents[1].name
              /\ Len(tx'[w].pending) > Len(tx[w].pending) =>
                    pc[w] = "create_insert" /\ pc'[w] = "create_commit"
              /\ pc'[w] = "create_commit" =>
                    /\ SeqToSet(tx'[w].pending) \cap items' = {}
                    /\ \A v \in Workers \ {w} :
                          SeqToSet(tx'[w].pending) \cap Visible(v)' = {}
              /\ SeqToSet(tx[w].pending) \cap items' # {} =>
                    pc[w] = "create_commit" /\ pc'[w] = "idle"]_vars

\* while a Create has inserted and not yet committed, a Get of the new id by
\* another worker has answered NotFound
C25_Witness ==
    \E w, v \in Workers :
        /\ pc[w] = "create_commit" /\ call[w].stmts = 2
        /\ res[v].op = "get" /\ res[v].err = ErrItemNotFound
        /\ <<res[v].id>> = call[w].ids

\* ---- C26
\* C26: of two Delete calls for the same live id that run concurrently,
\* exactly one returns success and the other returns NotFound.
C26_OneDeleteSucceeds ==
    \A w, v \in Workers :
        (/\ w # v /\ nfaults = 0
         /\ res[w].op = "delete" /\ res[v].op = "delete"
         /\ res[w].id = res[v].id /\ res[w].id # EmptyId
         /\ ~res[w].solo /\ ~res[v].solo
         /\ res[w].found \/ res[v].found) =>
            \/ res[w].err = NoErr /\ res[v].err = ErrItemNotFound
            \/ res[v].err = NoErr /\ res[w].err = ErrItemNotFound

\* ---- C27
\* C27: once a Delete of an id has returned success the item is never live
\* again, and no Update of that id that returns after it, one that fetched
\* the item before the delete included, returns success.
C27_DeletedStaysDeleted ==
    [][/\ \A id \in deleted200' : ~IsLiveId(id)'
       /\ \A w \in Workers :
             (/\ pc[w] \in {"update_check", "update_save"} /\ pc'[w] = "idle"
              /\ call[w].id \in deleted200) => res'[w].err # NoErr]_vars

\* ---- C28
\* C28: when two Updates of the same item run concurrently, one that gives
\* only a name and one that gives only an amount, and both return success,
\* the stored item has the new name and the new amount.
C28_NoLostUpdate ==
    \A w, v \in Workers :
        (/\ w # v /\ nfaults = 0
         /\ res[w].op = "update" /\ res[v].op = "update"
         /\ res[w].id = res[v].id
         /\ res[w].err = NoErr /\ res[v].err = NoErr
         /\ ~res[w].solo /\ ~res[v].solo
         /\ res[w].upd[1].hasName /\ ~res[w].upd[1].hasAmount
         /\ res[v].upd[1].hasAmount /\ ~res[v].upd[1].hasName) =>
            \E r \in Live(items) :
                /\ r.id = res[w].id
                /\ r.name = TrimSpace(res[w].upd[1].name)
                /\ r.amount = res[v].upd[1].amount

\* =================================================================== lists
\* Go's int on a 64-bit build, in two's complement: four limbs of 16 bits,
\* the least significant first
Limb == 65536

\* the int of a number between -2^31 and 2^31
Int64(n) ==
    IF n >= 0 THEN <<n % Limb, (n \div Limb) % Limb, 0, 0>>
    ELSE LET m == (-n) - 1
         IN <<Limb - 1 - (m % Limb), Limb - 1 - ((m \div Limb) % Limb),
              Limb - 1, Limb - 1>>

IsNegative(x) == x[4] >= Limb \div 2
IsZero(x) == x = <<0, 0, 0, 0>>

\* a non-negative int below 2^30, as a number
IsSmall(x) == x[4] = 0 /\ x[3] = 0 /\ x[2] < Limb \div 4
Small(x) == x[1] + Limb * x[2]

\* x > k for a number k between 0 and 2^16
GreaterThan(x, k) == ~IsNegative(x) /\ (x[4] > 0 \/ x[3] > 0 \/ x[2] > 0 \/ x[1] > k)

\* x - 1, wrapping around
SubOne(x) ==
    IF x[1] > 0 THEN <<x[1] - 1, x[2], x[3], x[4]>>
    ELSE IF x[2] > 0 THEN <<Limb - 1, x[2] - 1, x[3], x[4]>>
    ELSE IF x[3] > 0 THEN <<Limb - 1, Limb - 1, x[3] - 1, x[4]>>
    ELSE <<Limb - 1, Limb - 1, Limb - 1, (x[4] + Limb - 1) % Limb>>

\* x * k for a number k between 0 and 2^14, wrapping around
MulSmall(x, k) ==
    LET p1 == x[1] * k
        p2 == x[2] * k + (p1 \div Limb)
        p3 == x[3] * k + (p2 \div Limb)
        p4 == x[4] * k + (p3 \div Limb)
    IN <<p1 % Limb, p2 % Limb, p3 % Limb, p4 % Limb>>

\* 2^58 + 1 and the largest int
BigPage  == <<1, 0, 0, 1024>>
MaxInt64 == <<Limb - 1, Limb - 1, Limb - 1, (Limb \div 2) - 1>>

\* dto.PaginationRequest
PaginationRequest(page, limit) == [page |-> page, limit |-> limit]

\* ApplyDefaults without its last rule
ApplyDefaultsNoClamp(r) ==
    [page  |-> IF IsNegative(r.page) \/ IsZero(r.page) THEN Int64(1) ELSE r.page,
     limit |-> IF IsNegative(r.limit) \/ IsZero(r.limit) THEN Int64(10) ELSE r.limit]

\* dto.PaginationRequest.ApplyDefaults
ApplyDefaults(r) ==
    LET l == IF IsNegative(r.limit) \/ IsZero(r.limit) THEN Int64(10) ELSE r.limit
    IN [page  |-> IF IsNegative(r.page) \/ IsZero(r.page) THEN Int64(1) ELSE r.page,
        limit |-> IF GreaterThan(l, 100) THEN Int64(100) ELSE l]

\* dto.PaginationRequest.Validate
PaginationRequestValidate(r) ==
    IF IsNegative(r.page) THEN ErrInvalidPagination
    ELSE IF IsNegative(r.limit) THEN ErrInvalidPagination
    ELSE IF GreaterThan(r.limit, 100) THEN ErrLimitTooLarge
    ELSE NoErr

\* rows in the order of their ids. Find has no ORDER BY: the order in which
\* PostgreSQL hands the rows out is taken to be that of the ids.
RECURSIVE ById(_)
ById(rows) ==
    IF rows = {} THEN <<>>
    ELSE LET m == CHOOSE r \in rows : \A q \in rows : r.id <= q.id
         IN <<m>> \o ById(rows \ {m})

\* db.Model(&entities.Item{}).Count(&total): the live rows
Count == Cardinality(Live(items))

\* the rows OFFSET skips out of n: gorm writes OFFSET only for an offset > 0
Skipped(offset, n) ==
    IF IsNegative(offset) \/ IsZero(offset) THEN 0
    ELSE IF IsSmall(offset) THEN Min(Small(offset), n)
    ELSE n

\* db.Offset(offset).Limit(limit).Find(&items): live rows only
Find(offset, limit) ==
    LET all  == ById(Live(items))
        skip == Skipped(offset, Len(all))
    IN SubSeq(all, skip + 1, Min(Len(all), skip + limit))

\* the response of GET /items/ for what GetWithPagination returned
ListResponse(err, l, rows) ==
    IF err # NoErr
    THEN [NoList EXCEPT !.status = MapDomainError(err)]
    ELSE [NoList EXCEPT !.status = StatusOK, !.page = l.qpage, !.limit = l.qlimit,
                        !.total = l.total, !.totalPages = l.totalPages,
                        !.n = Len(rows)]

\* the response as the client of a request for (page, limit) receives it
Received(resp, page, limit, hit) ==
    [resp EXCEPT !.reqPage = page, !.reqLimit = limit, !.hit = hit]

\* itemUseCase.GetWithPagination up to and including the Count of
\* itemRepository.GetWithPagination
StartList(w, page, limit, http) ==
    LET req  == ApplyDefaults(PaginationRequest(page, limit))
        verr == PaginationRequestValidate(req)
        l    == [page |-> page, limit |-> limit, qpage |-> req.page,
                 qlimit |-> IF verr = NoErr THEN Small(req.limit) ELSE 0,
                 queried |-> verr = NoErr,
                 total |-> IF verr = NoErr THEN Count ELSE 0, totalPages |-> 0]
        this == [NoCall EXCEPT !.op = "list", !.list = <<l>>, !.http = http,
                               !.stmts = IF verr = NoErr THEN 1 ELSE 0,
                               !.solo = Solo(w), !.seq = ncalls + 1]
    IN IF verr # NoErr
       THEN /\ Return(w, Result(this, verr, <<>>))
            /\ IF http
               THEN /\ listCache' = {ListResponse(verr, l, <<>>)}
                    /\ lgot' = Received(ListResponse(verr, l, <<>>),
                                        Small(page), Small(limit), FALSE)
               ELSE UNCHANGED listVars
       ELSE /\ pc'   = [pc EXCEPT ![w] = "list_find"]
            /\ call' = [call EXCEPT ![w] = this]
            /\ UNCHANGED <<tx, res, listVars>>

\* itemUseCase.GetWithPagination called by a worker
ListCall(w, page, limit) ==
    /\ pc[w] = "idle"
    /\ Started(TRUE)
    /\ StartList(w, page, limit, FALSE)
    /\ UNCHANGED <<nameIndex, items, nextId, cache, got, deleted200, ngets, nfaults>>

\* the rest of itemRepository.GetWithPagination: offset, Find, totalPages; for
\* GET /items/ also Handler.ListItems' answer, which the cache middleware keeps
ListFind(w) ==
    /\ pc[w] = "list_find"
    /\ LET c      == [call[w] EXCEPT !.stmts = @ + 1]
           l      == c.list[1]
           offset == MulSmall(SubOne(l.qpage), l.qlimit)
           rows   == Find(offset, l.qlimit)
           done   == [l EXCEPT !.totalPages = (l.total + l.qlimit - 1) \div l.qlimit]
       IN /\ Return(w, Result([c EXCEPT !.list = <<done>>], NoErr, rows))
          /\ IF c.http
             THEN /\ listCache' = {ListResponse(NoErr, done, rows)}
                  /\ lgot' = Received(ListResponse(NoErr, done, rows),
                                      Small(l.page), Small(l.limit), FALSE)
             ELSE UNCHANGED listVars
    /\ UNCHANGED <<nameIndex, items, nextId, cache, got, deleted200, ngets, countVars>>

\* GET /items/?page=..&limit=.. through cache.New and Handler.ListItems: the
\* key of the cache is the path, which is the same for every query string
HttpListItems(w, page, limit) ==
    /\ pc[w] = "idle"
    /\ ngets < MaxGets
    /\ ngets' = ngets + 1
    /\ IF listCache # {}
       THEN /\ lgot' = Received(CHOOSE e \in listCache : TRUE, page, limit, TRUE)
            /\ UNCHANGED <<pc, call, tx, res, listCache>>
       ELSE StartList(w, Int64(page), Int64(limit), TRUE)
    /\ UNCHANGED <<nameIndex, items, nextId, cache, got, deleted200, countVars>>

\* the Expiration of the cached list response passes
ListCacheExpire ==
    /\ listCache # {}
    /\ listCache' = {}
    /\ UNCHANGED <<nameIndex, items, nextId, pc, call, tx, res, cache, got,
                   deleted200, lgot, ngets, countVars>>

\* numbers of live items in the table when the lists are made
Totals == {0, 1, 25}

\* n live items and d deleted ones; a table of an odd number of live items
\* is given a deleted one
ListTable(n, d) ==
    { Row(i, NumberedName(i), 1, FALSE) : i \in 1..n }
        \cup { Row(n + i, NumberedName(n + i), 1, TRUE) : i \in 1..d }

InitList ==
    /\ nameIndex \in BOOLEAN
    /\ items \in { ListTable(n, n % 2) : n \in Totals }
    /\ nextId = Cardinality(items) + 1
    /\ pc = [w \in Workers |-> "idle"]
    /\ call = [w \in Workers |-> NoCall]
    /\ tx = [w \in Workers |-> NoTx]
    /\ res = [w \in Workers |-> NoRes]
    /\ cache = {}
    /\ got = NoGet
    /\ deleted200 = {}
    /\ listCache = {}
    /\ lgot = NoList
    /\ ncalls = 0
    /\ nwrites = 0
    /\ ngets = 0
    /\ nfaults = 0

\* page and limit given to GetWithPagination
ListPages  == { Int64(n) : n \in {-1, 0, 1, 2, 3, 4} } \cup {BigPage, MaxInt64}
ListLimits == { Int64(n) : n \in {-1, 0, 1, 10, 64, 100, 101} }

NextList ==
    \/ \E w \in Workers, page \in ListPages, limit \in ListLimits :
          ListCall(w, page, limit)
    \/ \E w \in Workers : ListFind(w)

\* the paginated read of the use case layer
SpecList == InitList /\ [][NextList]_vars

\* page and limit in the query string of GET /items/; 0 is an absent parameter
QueryPages  == 0..3
QueryLimits == {0, 10}

NextListHttp ==
    \/ \E w \in Workers, page \in QueryPages, limit \in QueryLimits :
          HttpListItems(w, page, limit)
    \/ \E w \in Workers : ListFind(w)
    \/ ListCacheExpire

\* the list route of the item group
SpecListHttp == InitList /\ [][NextListHttp]_vars

\* ---- C17
\* C17: GetWithPagination replaces a page <= 0 by 1 and a limit <= 0 by 10,
\* lowers a limit > 100 to 100 and leaves every other value as it is, before
\* it validates; so for every page and limit it queries storage with a
\* page >= 1 and a limit between 1 and 100 and never fails with
\* InvalidPagination or LimitTooLarge.
C17_DefaultsBeforeValidation ==
    \A w \in Workers :
        res[w].op = "list" =>
            LET l == res[w].list[1]
            IN /\ res[w].err \notin {ErrInvalidPagination, ErrLimitTooLarge}
               /\ l.queried
               /\ ~IsNegative(l.qpage) /\ ~IsZero(l.qpage)
               /\ l.qlimit \in 1..100
               /\ l.qpage = IF IsNegative(l.page) \/ IsZero(l.page)
                            THEN Int64(1) ELSE l.page
               /\ l.qlimit = IF IsNegative(l.limit) \/ IsZero(l.limit) THEN 10
                             ELSE IF GreaterThan(l.limit, 100) THEN 100
                             ELSE Small(l.limit)

\* lists with a negative page and a limit of 101, and with a page of 0 and a
\* limit of 0, have returned
C17_Witness ==
    \E w, v \in Workers :
        /\ res[w].op = "list" /\ res[w].err = NoErr
        /\ res[w].list[1].page = Int64(-1) /\ res[w].list[1].limit = Int64(101)
        /\ res[v].op = "list" /\ res[v].err = NoErr
        /\ res[v].list[1].page = Int64(0) /\ res[v].list[1].limit = Int64(0)

\* ---- C18
\* the number of items that page and limit select out of total
ExpectedItems(total, page, limit) ==
    IF ~IsSmall(page) \/ Small(page) - 1 >= total THEN 0
    ELSE LET rest == total - (Small(page) - 1) * limit
         IN Min(limit, IF rest > 0 THEN rest ELSE 0)

\* C18: for every number total >= 0 of live items, every page >= 1 and every
\* limit between 1 and 100, the paginated result reports Total = total, the
\* page and the limit asked for, TotalPages = ceil(total / limit), which is 0
\* for total = 0, and holds min(limit, max(0, total - (page-1)*limit)) items.
C18_PageArithmetic ==
    \A w \in Workers :
        (res[w].op = "list" /\ res[w].err = NoErr) =>
            LET l == res[w].list[1]
            IN /\ l.total = Cardinality(Live(items))
               /\ l.totalPages * l.qlimit >= l.total
               /\ (l.totalPages - 1) * l.qlimit < l.total
               /\ l.total = 0 => l.totalPages = 0
               /\ Len(res[w].rows) = ExpectedItems(l.total, l.qpage, l.qlimit)

\* ---- C19
\* C19: every response of the list endpoint corresponds to the page and the
\* limit of the query string of its own request: it carries that page (1 for
\* an absent one) and that limit (10 for an absent one) and the number of
\* items they select; with 25 items and limit 10 the requests for the pages
\* 1, 2 and 3 are answered with 10, 10 and 5 items and the page fields 1, 2, 3.
C19_ResponseOfOwnRequest ==
    lgot.status # 0 =>
        LET page  == IF lgot.reqPage = 0 THEN 1 ELSE lgot.reqPage
            limit == IF lgot.reqLimit = 0 THEN 10 ELSE lgot.reqLimit
        IN /\ lgot.status = StatusOK
           /\ lgot.page = Int64(page)
           /\ lgot.limit = limit
           /\ lgot.n = ExpectedItems(Cardinality(Live(items)), Int64(page), limit)

\* ---- C20
\* Handler.CreateItem, GetItem, UpdateItem and DeleteItem: the status code
\* answered for what the use case returned; an empty id is answered with 400
HandlerStatus(r) ==
    IF r.op \in {"get", "update", "delete"} /\ r.id = EmptyId THEN StatusBadRequest
    ELSE IF r.err # NoErr THEN MapDomainError(r.err)
    ELSE IF r.op = "create" THEN StatusCreated
    ELSE StatusOK

\* the validation and pagination errors of the use case layer
ValidationErrors ==
    {ErrItemNameRequired, ErrItemNameTooLong, ErrItemAmountTooLarge,
     ErrInvalidInput, ErrNoUpdates, ErrInvalidPagination, ErrLimitTooLarge}

\* C20: the HTTP layer answers a successful create with 201, a successful
\* read, update or delete with 200, NotFound with 404, every validation or
\* pagination error with 400, AlreadyExists with 409 and every other error
\* with 500.
C20_StatusOfOutcome ==
    \A w \in Workers :
        res[w].op \in {"create", "get", "update", "delete"} =>
            HandlerStatus(res[w]) =
                IF res[w].err = NoErr
                THEN (IF res[w].op = "create" THEN StatusCreated ELSE StatusOK)
                ELSE IF res[w].err = ErrItemNotFound THEN StatusNotFound
                ELSE IF res[w].err \in ValidationErrors THEN StatusBadRequest
                ELSE IF res[w].err = ErrItemAlreadyExists THEN StatusConflict
                ELSE StatusInternalServerError

\* ---- C29
\* lists of a small table while Create and Delete calls run
NextListWrites ==
    \/ \E w \in Workers, page \in {Int64(1), Int64(2)}, limit \in {Int64(1), Int64(10)} :
          ListCall(w, page, limit)
    \/ \E w \in Workers : ListFind(w)
    \/ \E w \in Workers, c \in Candidates : CreateCall(w, c)
    \/ \E w \in Workers : CreateCheck(w)
    \/ \E w \in Workers : CreateInsert(w)
    \/ \E w \in Workers : Commit(w)
    \/ \E w \in Workers, id \in Ids : DeleteCall(w, id)
    \/ \E w \in Workers : DeleteExec(w)

SpecListWrites == Init /\ [][NextListWrites]_vars

\* C29: also while items are created or deleted, a paginated result holds at
\* most max(0, Total - (p-1)*Limit) items for its page p, Total and Limit
\* being those of the same result.
C29_ItemsWithinTotal ==
    \A w \in Workers :
        (res[w].op = "list" /\ res[w].err = NoErr /\ IsSmall(res[w].list[1].qpage)) =>
            LET l    == res[w].list[1]
                rest == l.total - (Small(l.qpage) - 1) * l.qlimit
            IN Len(res[w].rows) <= IF rest > 0 THEN rest ELSE 0

NextHttp ==
    \/ \E id \in Ids : HttpGetItem(id)
    \/ \E id \in Ids : CacheExpire(id)
    \/ \E w \in Workers, c \in Candidates : CreateCall(w, c)
    \/ \E w \in Workers : CreateCheck(w)
    \/ \E w \in Workers : CreateInsert(w)
    \/ \E w \in Workers : Commit(w)
    \/ \E w \in Workers, id \in Ids : DeleteCall(w, id)
    \/ \E w \in Workers : DeleteExec(w)
    \/ \E w \in Workers, id \in Ids, u \in UpdateReqs : UpdateCall(w, id, u)
    \/ \E w \in Workers : UpdateCheck(w)
    \/ \E w \in Workers : UpdateSave(w)

SpecHttp == Init /\ [][NextHttp]_vars

\* ---- C7
\* C7: after DELETE of an id has answered 200, every later GET of that id
\* answers 404, also when the id was read with 200 shortly before; no Create,
\* BulkCreate or Update is involved.
C7_GetAfterDeleteIsNotFound ==
    (nwrites = 0 /\ got.after) => got.status = StatusNotFound

====
